---- MODULE Spec2Model ----
(***************************************************************************)
(* Model of models/encoders.py: the gated-convolution encoders, the        *)
(* residual encoder, the ResNet-backed encoder and the two ensemble        *)
(* wrappers.  A tensor is a record [shape, flat, err]: its shape, its      *)
(* elements in row-major order, and the framework error raised while       *)
(* computing it ("" when none).  Real numbers are modelled as integers;    *)
(* the output of torch.exp is an integer in units of 1/ExpScale.           *)
(***************************************************************************)
EXTENDS Integers, Sequences, FiniteSets, TLC

\* ------------------------------------------------------------------ bounds
MaxBatch == 2        \* batch sizes 1..MaxBatch
MaxS == 2            \* number of components S in 1..MaxS
MaxLatent == 2       \* latent_dims in 1..MaxLatent
MaxH == 2            \* h in 1..MaxH for a residual encoder called directly
MaxSide == 28        \* image sides 1..MaxSide of the forward pass on shapes

\* the entries of a components vector, the image side lengths and the values of
\* the constructor argument h tried
Entries == {0, 1, 2}
ImageSides == {4, 5}
Hs == {6, 12}

\* ------------------------------------------------------------ program constants
DefaultH == 294          \* h=294, encoders.py line 9
ResnetH == 64            \* h=64, encoders.py line 128
HardtanhMin == -6        \* nn.Hardtanh(min_val=-6., ...)
HardtanhMax == 2         \* nn.Hardtanh(..., max_val=2.)
ConvOutChannels == 6     \* GatedConv2d(64, 6, 3, 1, 1)
ExpScale == 10000        \* fixed-point unit of exp values
SqrtE == 16487           \* exp(0.5) in units of 1/ExpScale
InitialSeed == 0         \* the parameter set the layers are constructed with

\* ------------------------------------------------------------------ tensors
\* (the elements are stored as a sequence)
Ok(shape, flat) == [shape |-> shape, flat |-> flat \o <<>>, err |-> ""]
Err(msg) == [shape |-> <<>>, flat |-> <<>>, err |-> msg]
NoTensor == Err("none")
IsOk(t) == t.err = ""

RECURSIVE Numel(_)
Numel(shape) == IF shape = <<>> THEN 1 ELSE Head(shape) * Numel(Tail(shape))

\* torch.zeros(shape)
Zeros(shape) == Ok(shape, [k \in 1..Numel(shape) |-> 0])

\* row r (1-based) of a 2-D tensor, as a sequence
Row(t, r) == [k \in 1..t.shape[2] |-> t.flat[(r - 1) * t.shape[2] + k]]

\* x.view((-1, h))
View(t, h) ==
    IF ~IsOk(t) THEN t
    ELSE IF Numel(t.shape) % h # 0 THEN Err("view")
    ELSE Ok(<<Numel(t.shape) \div h, h>>, t.flat)

\* a tensor without data: only its shape is followed
Meta(shape) == [shape |-> shape, flat |-> <<>>, err |-> ""]

\* the shape of torch.cat((a, b), dim=-1) of two 2-D tensors: the rows must agree
CatShape(a, b) ==
    IF ~IsOk(a) THEN a
    ELSE IF ~IsOk(b) THEN b
    ELSE IF a.shape[1] # b.shape[1] THEN Err("cat")
    ELSE Meta(<<a.shape[1], a.shape[2] + b.shape[2]>>)

\* torch.cat((a, b), dim=-1) of two 2-D tensors
Cat(a, b) ==
    IF ~IsOk(CatShape(a, b)) THEN CatShape(a, b)
    ELSE LET w == a.shape[2] + b.shape[2]
         IN  Ok(CatShape(a, b).shape,
                [k \in 1..(a.shape[1] * w) |->
                    LET r == ((k - 1) \div w) + 1
                        c == ((k - 1) % w) + 1
                    IN  IF c <= a.shape[2] THEN Row(a, r)[c]
                        ELSE Row(b, r)[c - a.shape[2]]])

\* func.one_hot(s, S) for a 0-based index s
OneHot(s, S) == [k \in 1..S |-> IF k = s + 1 THEN 1 ELSE 0]

\* v.view((1, -1)).tile((n, 1)): n copies of the row v
Tile(v, n) == Ok(<<n, Len(v)>>, [k \in 1..(n * Len(v)) |-> v[((k - 1) % Len(v)) + 1]])

\* nn.ReLU
ReLUScalar(v) == IF v < 0 THEN 0 ELSE v
ReLU(t) ==
    IF ~IsOk(t) THEN t ELSE Ok(t.shape, [k \in 1..Len(t.flat) |-> ReLUScalar(t.flat[k])])

\* a Hardtanh with the lower limit -8 instead of -6
HardtanhScalarWide(v) == IF v < -8 THEN -8 ELSE IF v > HardtanhMax THEN HardtanhMax ELSE v

\* nn.Hardtanh(min_val=-6., max_val=2.)
HardtanhScalar(v) == IF v < HardtanhMin THEN HardtanhMin ELSE IF v > HardtanhMax THEN HardtanhMax ELSE v
Hardtanh(t) ==
    IF ~IsOk(t) THEN t ELSE Ok(t.shape, [k \in 1..Len(t.flat) |-> HardtanhScalar(t.flat[k])])

\* exp(n / 2) in units of 1/ExpScale, rounded down
RECURSIVE ExpHalfScalar(_)
ExpHalfScalar(n) ==
    IF n = 0 THEN ExpScale
    ELSE IF n > 0 THEN (ExpHalfScalar(n - 1) * SqrtE) \div ExpScale
    ELSE (ExpHalfScalar(n + 1) * ExpScale) \div SqrtE

\* torch.exp(0.5 * t)
ExpHalf(t) ==
    IF ~IsOk(t) THEN t ELSE Ok(t.shape, [k \in 1..Len(t.flat) |-> ExpHalfScalar(t.flat[k])])

RECURSIVE SumTo(_, _)
SumTo(f, n) == IF n = 0 THEN 0 ELSE f[n] + SumTo(f, n - 1)

\* element (r, c), 1-based, of a 2-D tensor
At(t, r, c) == t.flat[(r - 1) * t.shape[2] + c]

\* ------------------------------------------------------------- linear layers
\* nn.Linear(in_features, out_features); id tells the layers of one encoder apart
Layer(id, inF, outF) == [id |-> id, inF |-> inF, outF |-> outF]

\* the parameters of a layer: a fixed function of the encoder's parameter set
Weight(seed, layer, j, c) == ((seed + layer.id + j + 2 * c + layer.id * j * c) % 3) - 1
Bias(seed, layer, j) == (seed + layer.id + j) % 2

\* the shape of nn.Linear.forward: the input's last dimension must equal in_features
LinearShape(layer, t) ==
    IF ~IsOk(t) THEN t
    ELSE IF t.shape[2] # layer.inF THEN Err("linear")
    ELSE Meta(<<t.shape[1], layer.outF>>)

\* nn.Linear.forward
Linear(seed, layer, t) ==
    IF ~IsOk(LinearShape(layer, t)) THEN LinearShape(layer, t)
    ELSE Ok(LinearShape(layer, t).shape,
            [k \in 1..(t.shape[1] * layer.outF) |->
                LET r == ((k - 1) \div layer.outF) + 1
                    j == ((k - 1) % layer.outF) + 1
                IN  Bias(seed, layer, j)
                    + SumTo([c \in 1..layer.inF |-> Weight(seed, layer, j, c) * At(t, r, c)],
                            layer.inF)])

\* --------------------------------------------------------- feature extractors
\* the layers with stride 1 in the second one
ConvLayersStrideOne ==
    << <<1, 32, 7, 1, 3>>, <<32, 32, 3, 1, 1>>, <<32, 64, 5, 1, 2>>,
       <<64, 64, 3, 2, 1>>, <<64, ConvOutChannels, 3, 1, 1>> >>

\* the arguments (in, out, kernel, stride, padding) of the five GatedConv2d layers
ConvLayers ==
    << <<1, 32, 7, 1, 3>>, <<32, 32, 3, 2, 1>>, <<32, 64, 5, 1, 2>>,
       <<64, 64, 3, 2, 1>>, <<64, ConvOutChannels, 3, 1, 1>> >>

\* spatial output size of one convolution
ConvOut(n, k, s, p) == ((n + 2 * p - k) \div s) + 1

\* the shape after one GatedConv2d layer l = (in, out, kernel, stride, padding)
GatedConv2dShape(l, t) ==
    IF ~IsOk(t) THEN t
    ELSE IF t.shape[2] # l[1] THEN Err("channels")
    ELSE Meta(<<t.shape[1], l[2], ConvOut(t.shape[3], l[3], l[4], l[5]),
                ConvOut(t.shape[4], l[3], l[4], l[5])>>)

\* the shape after the first m layers of conv_layer
RECURSIVE ConvShape(_, _)
ConvShape(t, m) == IF m = 0 THEN Meta(t.shape) ELSE GatedConv2dShape(ConvLayers[m], ConvShape(t, m - 1))

\* sum of the pixels of sample b (1-based) of an image batch
RECURSIVE PixSum(_, _, _)
PixSum(img, b, n) ==
    IF n = 0 THEN 0
    ELSE img.flat[(b - 1) * (Numel(img.shape) \div img.shape[1]) + n] + PixSum(img, b, n - 1)

\* value of feature k of a sample: a fixed function of the sample's content
Feature(img, b, k) == ((PixSum(img, b, Numel(img.shape) \div img.shape[1]) + k) % 3) - 1

\* self.conv_layer of the gated encoders: (B, 1, n, n) -> (B, 6, n', n')
GatedConvLayer(img) ==
    \* the shape after the five layers, and the element count of one sample
    LET out == ConvShape(img, Len(ConvLayers))
        per == Numel(Tail(out.shape))
    IN  IF ~IsOk(out) THEN out
        ELSE Ok(out.shape,
                [k \in 1..(img.shape[1] * per) |->
                    Feature(img, ((k - 1) \div per) + 1, ((k - 1) % per) + 1)])

\* the pretrained backbone returned by load_resnet: (B, ...) -> (B, 64)
ResnetLayer(img) ==
    Ok(<<img.shape[1], ResnetH>>,
       [k \in 1..(img.shape[1] * ResnetH) |->
           Feature(img, ((k - 1) \div ResnetH) + 1, ((k - 1) % ResnetH) + 1)])

\* encoder.conv_layer(x)
ConvLayer(enc, img) == IF enc.conv = "resnet" THEN ResnetLayer(img) ELSE GatedConvLayer(img)

\* --------------------------------------------------------------- constructors
\* GatedConv2dEncoder.__init__
GatedConv2dEncoderInit(S, latent_dims, h, seed) ==
    [cls |-> "GatedConv2dEncoder", h |-> h, S |-> S, conv |-> "gated", seed |-> seed,
     layers |-> [mu_enc |-> Layer(1, h + S, latent_dims),
                 log_var_enc |-> Layer(2, h + S, latent_dims)]]

\* the six heads with mu_1 declared without the width of the skip input
ResidualLayersNarrowMu1(S, latent_dims, h) ==
    [mu_0 |-> Layer(1, h + S, latent_dims),
     mu_1 |-> Layer(2, h + S, latent_dims),
     mu_enc |-> Layer(3, h + S + latent_dims, latent_dims),
     log_var_0 |-> Layer(4, h + S, latent_dims),
     log_var_1 |-> Layer(5, h + S + latent_dims, latent_dims),
     log_var_enc |-> Layer(6, h + S + latent_dims, latent_dims)]

\* the six heads of GatedConv2dResidualEncoder.__init__
ResidualLayers(S, latent_dims, h) ==
    [mu_0 |-> Layer(1, h + S, latent_dims),
     mu_1 |-> Layer(2, h + S + latent_dims, latent_dims),
     mu_enc |-> Layer(3, h + S + latent_dims, latent_dims),
     log_var_0 |-> Layer(4, h + S, latent_dims),
     log_var_1 |-> Layer(5, h + S + latent_dims, latent_dims),
     log_var_enc |-> Layer(6, h + S + latent_dims, latent_dims)]

\* GatedConv2dResidualEncoder.__init__ (conv_layer=True)
GatedConv2dResidualEncoderInit(S, latent_dims, h, seed) ==
    [cls |-> "GatedConv2dResidualEncoder", h |-> h, S |-> S, conv |-> "gated", seed |-> seed,
     layers |-> ResidualLayers(S, latent_dims, h)]

\* ResNetEncoder.__init__: the residual heads with h = 64 and the loaded backbone
ResNetEncoderInit(S, latent_dims, seed) ==
    [cls |-> "ResNetEncoder", h |-> ResnetH, S |-> S, conv |-> "resnet", seed |-> seed,
     layers |-> ResidualLayers(S, latent_dims, ResnetH)]

\* an object after construction: its class, its configuration, its encoder
\* (for an encoder class, the object itself) and the number of load_resnet calls
Object(cls, S, latent_dims, residuals, enc, loads) ==
    [cls |-> cls, device |-> "cuda:0", S |-> S, latent_dims |-> latent_dims,
     residuals |-> residuals, encoder |-> enc, loads |-> loads]

\* EnsembleGatedConv2dEncoders.__init__
EnsembleGatedConv2dEncodersInit(latent_dims, h, S, residuals, seed) ==
    Object("EnsembleGatedConv2dEncoders", S, latent_dims, residuals,
           IF residuals THEN GatedConv2dResidualEncoderInit(S, latent_dims, h, seed)
           ELSE GatedConv2dEncoderInit(S, latent_dims, h, seed), 0)

\* EnsembleResnetEncoders.__init__: residuals keeps its default, True
EnsembleResnetEncodersInit(latent_dims, S, seed) ==
    Object("EnsembleResnetEncoders", S, latent_dims, TRUE,
           ResNetEncoderInit(S, latent_dims, seed), 1)

\* ------------------------------------------------------------ forward passes
Pair(mu, std) == [mu |-> mu, std |-> std]
\* the exception a forward pass ends with ("" when it returns)
Raised(p) == IF ~IsOk(p.mu) THEN p.mu.err ELSE p.std.err

\* GatedConv2dEncoder.forward(x, component)
GatedConv2dEncoderForward(enc, x, component) ==
    LET x1 == ConvLayer(enc, x)
        x2 == View(x1, enc.h)
        x3 == Cat(x2, component)
    IN  Pair(Linear(enc.seed, enc.layers.mu_enc, x3),
             ExpHalf(Hardtanh(Linear(enc.seed, enc.layers.log_var_enc, x3))))

\* GatedConv2dResidualEncoder.forward(x_s)
GatedConv2dResidualEncoderForward(enc, x_s) ==
    LET m0 == ReLU(Linear(enc.seed, enc.layers.mu_0, x_s))
        m1 == Cat(x_s, m0)
        m2 == ReLU(Linear(enc.seed, enc.layers.mu_1, m1))
        m3 == Cat(x_s, m2)
        s0 == ReLU(Linear(enc.seed, enc.layers.log_var_0, x_s))
        s1 == Cat(x_s, s0)
        s2 == ReLU(Linear(enc.seed, enc.layers.log_var_1, s1))
        s3 == Cat(x_s, s2)
    IN  Pair(Linear(enc.seed, enc.layers.mu_enc, m3),
             ExpHalf(Hardtanh(Linear(enc.seed, enc.layers.log_var_enc, s3))))

\* the two heads applied directly, the std taken from the mean head
DirectHeadsFromMean(enc, x_s) ==
    Pair(Linear(enc.seed, enc.layers.mu_enc, x_s),
         ExpHalf(Hardtanh(Linear(enc.seed, enc.layers.mu_enc, x_s))))

\* the else branch of the ensemble loop: the two heads applied directly
DirectHeads(enc, x_s) ==
    Pair(Linear(enc.seed, enc.layers.mu_enc, x_s),
         ExpHalf(Hardtanh(Linear(enc.seed, enc.layers.log_var_enc, x_s))))

\* mu[:, i, :] = v for a 3-D tensor mu of shape (B, n_A, L), 0-based slot i: the value
\* is broadcast to (B, L); a slot outside the tensor or a value that does not
\* broadcast raises
SetSlot(t, i, v) ==
    IF ~IsOk(v) THEN v
    ELSE IF i >= t.shape[2] THEN Err("index")
    ELSE IF ~(v.shape[1] \in {1, t.shape[1]} /\ v.shape[2] \in {1, t.shape[3]}) THEN Err("shape")
    ELSE Ok(t.shape,
            [k \in 1..Numel(t.shape) |->
                LET b == ((k - 1) \div (t.shape[2] * t.shape[3])) + 1
                    sl == ((k - 1) \div t.shape[3]) % t.shape[2]
                    j == ((k - 1) % t.shape[3]) + 1
                IN  IF sl = i
                    THEN At(v, IF v.shape[1] = 1 THEN 1 ELSE b, IF v.shape[2] = 1 THEN 1 ELSE j)
                    ELSE t.flat[k]])

\* t[:, i, :] of a 3-D tensor, as a (B, L) tensor
Slot(t, i) ==
    Ok(<<t.shape[1], t.shape[3]>>,
       [k \in 1..(t.shape[1] * t.shape[3]) |->
           t.flat[(((k - 1) \div t.shape[3]) * t.shape[2] + i) * t.shape[3] + ((k - 1) % t.shape[3]) + 1]])

\* the length of the vector instead of the sum of its entries
SumAsLength(components) == Len(components)

\* torch.sum(components)
Sum(components) == SumTo(components, Len(components))

\* the positions of the entries equal to 1 in decreasing order
RECURSIVE WhereDescending(_, _)
WhereDescending(components, n) ==
    IF n = 0 THEN <<>>
    ELSE IF components[n] = 1 THEN <<n - 1>> \o WhereDescending(components, n - 1)
    ELSE WhereDescending(components, n - 1)

\* torch.where(components == 1)[0]: the 0-based positions of the entries equal to 1,
\* in increasing order
RECURSIVE Where(_, _)
Where(components, n) ==
    IF n = 0 THEN <<>>
    ELSE IF components[n] = 1 THEN Append(Where(components, n - 1), n - 1)
    ELSE Where(components, n - 1)

\* ------------------------------------------------------------------- inputs
\* an image batch (B, 1, n, n); sample b (1-based) is filled with the value b % 2,
\* so neighbouring samples of a batch differ
Image(b, n) ==
    Ok(<<b, 1, n, n>>, [k \in 1..(b * n * n) |-> (((k - 1) \div (n * n)) + 1) % 2])

Images == {Image(b, n) : b \in 1..MaxBatch, n \in ImageSides}

\* a (B, w) tensor handed to the residual encoder directly
Features(b, w) == Ok(<<b, w>>, [k \in 1..(b * w) |-> (k % 3) - 1])

\* the objects a program can construct
Objects ==
    {Object("GatedConv2dEncoder", S, L, FALSE, GatedConv2dEncoderInit(S, L, h, InitialSeed), 0) :
        S \in 1..MaxS, L \in 1..MaxLatent, h \in Hs}
    \cup {Object("GatedConv2dResidualEncoder", S, L, TRUE,
                 GatedConv2dResidualEncoderInit(S, L, h, InitialSeed), 0) :
        S \in 1..MaxS, L \in 1..MaxLatent, h \in 1..MaxH}
    \cup {EnsembleGatedConv2dEncodersInit(L, h, S, residuals, InitialSeed) :
        S \in 1..MaxS, L \in 1..MaxLatent, h \in Hs, residuals \in BOOLEAN}
    \cup {Object("ResNetEncoder", S, L, TRUE, ResNetEncoderInit(S, L, InitialSeed), 1) :
        S \in 1..MaxS, L \in 1..MaxLatent}
    \cup {EnsembleResnetEncodersInit(L, S, InitialSeed) :
        S \in 1..MaxS, L \in 1..MaxLatent}

Ensembles == {"EnsembleGatedConv2dEncoders", "EnsembleResnetEncoders"}
ResidualClasses == {"GatedConv2dResidualEncoder", "ResNetEncoder"}

\* every forward taking two arguments
ArityTwo(cls) == 2

\* the number of arguments forward takes besides self
Arity(cls) == IF cls \in ResidualClasses THEN 1 ELSE 2

\* -------------------------------------------------------------------- state
VARIABLES
    model,      \* the constructed object: configuration, layers, parameters
    loadCalls,  \* calls of load_resnet so far
    pc,         \* position of the running forward call, or how the last one ended
    args,       \* the arguments of the call, a sequence
    x,          \* the local x of the running ensemble forward
    n_A,        \* the local n_A
    mu, std,    \* the local result tensors
    idx,        \* torch.where(components == 1)[0]
    i,          \* number of loop iterations done
    convCalls,  \* applications of conv_layer in this call
    writes,     \* per slot written: the component index s and the label used
    result,     \* what the call returned
    raised,     \* the exception it ended with, "" when none
    last        \* the previous call, kept when this call repeats its arguments

vars == <<model, loadCalls, pc, args, x, n_A, mu, std, idx, i, convCalls, writes,
          result, raised, last>>

locals == <<x, n_A, mu, std, idx, i>>

NoResult == Pair(NoTensor, NoTensor)
NoCall == [valid |-> FALSE, args |-> <<>>, result |-> NoResult, raised |-> ""]

Init ==
    /\ model \in Objects
    /\ loadCalls = model.loads
    /\ pc = "idle"
    /\ args = <<>>
    /\ x = NoTensor /\ n_A = 0 /\ mu = NoTensor /\ std = NoTensor
    /\ idx = <<>> /\ i = 0
    /\ convCalls = 0 /\ writes = <<>>
    /\ result = NoResult /\ raised = ""
    /\ last = NoCall

Finished == pc \in {"returned", "raised"}

\* the argument lists a caller may pass now: any of argSet when no call has been
\* made since the last result was dropped, the same ones again after a finished call
Callable(argSet) ==
    IF pc = "idle" THEN argSet
    ELSE IF Finished THEN {a \in {args} : a \in argSet}
    ELSE {}

\* what a new call remembers of the one before it
Remember ==
    IF Finished
    THEN [valid |-> TRUE, args |-> args, result |-> result, raised |-> raised]
    ELSE NoCall

\* the end of a call that computes its result p in one step
Finish(pair) ==
    \E p \in {pair} :
       /\ raised' = Raised(p)
       /\ result' = IF Raised(p) = "" THEN p ELSE NoResult
       /\ pc' = IF Raised(p) = "" THEN "returned" ELSE "raised"

\* the caller drops the result of the finished call
Release ==
    /\ Finished
    /\ pc' = "idle"
    /\ args' = <<>>
    /\ x' = NoTensor /\ n_A' = 0 /\ mu' = NoTensor /\ std' = NoTensor
    /\ idx' = <<>> /\ i' = 0
    /\ convCalls' = 0 /\ writes' = <<>>
    /\ result' = NoResult /\ raised' = ""
    /\ last' = NoCall
    /\ UNCHANGED <<model, loadCalls>>

\* argument lists whose length is not the one forward takes
WrongArgs(cls) == {a \in {<<NoTensor>>, <<NoTensor, NoTensor>>} : Len(a) # Arity(cls)}

\* forward called with a number of arguments the method does not take: TypeError
CallWrongArity ==
    /\ \E a \in Callable(WrongArgs(model.cls)) :
          /\ args' = a
          /\ last' = Remember
    /\ pc' = "raised" /\ raised' = "TypeError" /\ result' = NoResult
    /\ convCalls' = 0 /\ writes' = <<>>
    /\ UNCHANGED <<model, loadCalls, locals>>

\* (x, component) with component the one-hot label of one component for every sample
GatedArgs(obj) ==
    {<<img, Tile(OneHot(s, obj.S), img.shape[1])>> : img \in Images, s \in 0..(obj.S - 1)}

\* GatedConv2dEncoder.forward(x, component)
CallGatedConv2dEncoder ==
    /\ model.cls = "GatedConv2dEncoder"
    /\ \E a \in Callable(GatedArgs(model)) :
          /\ args' = a
          /\ last' = Remember
          /\ Finish(GatedConv2dEncoderForward(model.encoder, a[1], a[2]))
    /\ convCalls' = 1 /\ writes' = <<>>
    /\ UNCHANGED <<model, loadCalls, locals>>

\* (x_s,) of width h + S, or one wider
ResidualArgs(obj) ==
    {<<Features(b, w)>> : b \in 1..MaxBatch,
                          w \in {obj.encoder.h + obj.S, obj.encoder.h + obj.S + 1}}

\* GatedConv2dResidualEncoder.forward(x_s), also ResNetEncoder's
CallGatedConv2dResidualEncoder ==
    /\ model.cls \in ResidualClasses
    /\ \E a \in Callable(ResidualArgs(model)) :
          /\ args' = a
          /\ last' = Remember
          /\ Finish(GatedConv2dResidualEncoderForward(model.encoder, a[1]))
    /\ convCalls' = 0 /\ writes' = <<>>
    /\ UNCHANGED <<model, loadCalls, locals>>

\* the components vectors of length S handed to an ensemble
ComponentVectors(S) == [1..S -> Entries]

\* (x, components)
EnsembleArgs(obj) == Images \X ComponentVectors(obj.S)

\* the order of the first statements of the two ensemble forwards
FirstStep(cls) == IF cls = "EnsembleResnetEncoders" THEN "conv" ELSE "alloc"
AfterAlloc(cls) == IF cls = "EnsembleResnetEncoders" THEN "loop" ELSE "conv"
AfterConv(cls) == IF cls = "EnsembleResnetEncoders" THEN "alloc" ELSE "view"

\* an ensemble's forward(x, components) is entered
CallEnsemble ==
    /\ model.cls \in Ensembles
    /\ \E a \in Callable(EnsembleArgs(model)) :
          /\ args' = a
          /\ last' = Remember
          /\ x' = a[1]
    /\ pc' = FirstStep(model.cls)
    /\ n_A' = 0 /\ mu' = NoTensor /\ std' = NoTensor /\ idx' = <<>> /\ i' = 0
    /\ convCalls' = 0 /\ writes' = <<>>
    /\ result' = NoResult /\ raised' = ""
    /\ UNCHANGED <<model, loadCalls>>

\* torch.where(components == 1)[0], evaluated when the for statement is reached
EnterLoop(next, components) == IF next = "loop" THEN Where(components, Len(components)) ELSE <<>>

\* n_A = torch.sum(components); mu = torch.zeros((x.size(0), n_A, latent_dims));
\* std = torch.zeros_like(mu)
EnsAlloc ==
    /\ pc = "alloc"
    /\ n_A' = Sum(args[2])
    /\ mu' = Zeros(<<x.shape[1], Sum(args[2]), model.latent_dims>>)
    /\ std' = Zeros(<<x.shape[1], Sum(args[2]), model.latent_dims>>)
    /\ pc' = AfterAlloc(model.cls)
    /\ idx' = EnterLoop(AfterAlloc(model.cls), args[2])
    /\ UNCHANGED <<model, loadCalls, args, x, i, convCalls, writes, result, raised, last>>

\* the feature extraction step loading the backbone again, with other parameters
EnsConvReloading ==
    /\ pc = "conv"
    /\ x' = ConvLayer(model.encoder, x)
    /\ convCalls' = convCalls + 1
    /\ pc' = AfterConv(model.cls)
    /\ loadCalls' = loadCalls + 1
    /\ model' = [model EXCEPT !.encoder.seed = 1 - @]
    /\ UNCHANGED <<args, n_A, mu, std, idx, i, writes, result, raised, last>>

\* x = self.encoder.conv_layer(x)
EnsConv ==
    /\ pc = "conv"
    /\ x' = ConvLayer(model.encoder, x)
    /\ convCalls' = convCalls + 1
    /\ pc' = AfterConv(model.cls)
    /\ UNCHANGED <<model, loadCalls, args, n_A, mu, std, idx, i, writes, result, raised, last>>

\* x = x.view((-1, self.encoder.h)), EnsembleGatedConv2dEncoders only
EnsView ==
    /\ pc = "view"
    /\ \E v \in {View(x, model.encoder.h)} :
          IF IsOk(v)
          THEN /\ x' = v /\ pc' = "loop" /\ idx' = EnterLoop("loop", args[2])
               /\ UNCHANGED raised
          ELSE /\ raised' = v.err /\ pc' = "raised" /\ UNCHANGED <<x, idx>>
    /\ UNCHANGED <<model, loadCalls, args, n_A, mu, std, i, convCalls, writes, result, last>>

\* the encoding of one component: self.encoder(x_s), or the two heads directly
EncodeComponent(obj, x_s) ==
    IF obj.residuals THEN GatedConv2dResidualEncoderForward(obj.encoder, x_s)
    ELSE DirectHeads(obj.encoder, x_s)

\* component = func.one_hot(s, self.S).view((1, -1)).tile((x.size(0), 1))
ComponentLabel(s, S, t) == Tile(OneHot(s, S), t.shape[1])

\* the right-hand side of one loop iteration for component s: the label built and
\* the pair the encoder returns for x_s = torch.cat((x, component), dim=-1)
Iteration(obj, t, s) ==
    [label |-> ComponentLabel(s, obj.S, t),
     p |-> EncodeComponent(obj, Cat(t, ComponentLabel(s, obj.S, t)))]

\* a loop iteration that binds the concatenation to x itself
EnsLoopBodyRebindingX ==
    /\ pc = "loop"
    /\ i < Len(idx)
    /\ \E it \in {Iteration(model, x, idx[i + 1])} :
       \E newMu \in {SetSlot(mu, i, it.p.mu)} :
          IF Raised(it.p) # "" THEN /\ raised' = Raised(it.p) /\ pc' = "raised"
                                     /\ UNCHANGED <<mu, std, i, writes, x>>
          ELSE IF ~IsOk(newMu) THEN /\ raised' = newMu.err /\ pc' = "raised"
                                    /\ UNCHANGED <<mu, std, i, writes, x>>
          ELSE /\ mu' = newMu /\ std' = SetSlot(std, i, it.p.std)
               /\ i' = i + 1
               /\ writes' = Append(writes, [slot |-> i, s |-> idx[i + 1], label |-> it.label])
               /\ x' = Cat(x, it.label)
               /\ UNCHANGED <<pc, raised>>
    /\ UNCHANGED <<model, loadCalls, args, n_A, idx, convCalls, result, last>>

\* one iteration of the loop over torch.where(components == 1)[0]: both slots are
\* assigned unless the encoder or the first assignment raises
EnsLoopBody ==
    /\ pc = "loop"
    /\ i < Len(idx)
    /\ \E it \in {Iteration(model, x, idx[i + 1])} :
       \E newMu \in {SetSlot(mu, i, it.p.mu)} :
          IF Raised(it.p) # "" THEN /\ raised' = Raised(it.p) /\ pc' = "raised"
                                     /\ UNCHANGED <<mu, std, i, writes>>
          ELSE IF ~IsOk(newMu) THEN /\ raised' = newMu.err /\ pc' = "raised"
                                    /\ UNCHANGED <<mu, std, i, writes>>
          ELSE /\ mu' = newMu /\ std' = SetSlot(std, i, it.p.std)
               /\ i' = i + 1
               /\ writes' = Append(writes, [slot |-> i, s |-> idx[i + 1], label |-> it.label])
               /\ UNCHANGED <<pc, raised>>
    /\ UNCHANGED <<model, loadCalls, args, x, n_A, idx, convCalls, result, last>>

\* the loop is over: return mu, std
EnsReturn ==
    /\ pc = "loop"
    /\ i = Len(idx)
    /\ result' = Pair(mu, std)
    /\ pc' = "returned"
    /\ UNCHANGED <<model, loadCalls, args, locals, convCalls, writes, raised, last>>

Next ==
    \/ Release
    \/ CallWrongArity
    \/ CallGatedConv2dEncoder
    \/ CallGatedConv2dResidualEncoder
    \/ CallEnsemble
    \/ EnsAlloc
    \/ EnsConv
    \/ EnsView
    \/ EnsLoopBody
    \/ EnsReturn

Spec == Init /\ [][Next]_vars

\* ------------------------------------------------- the forward pass on shapes
\* GatedConv2dEncoder.forward followed statement by statement, and conv_layer layer
\* by layer, on tensors without data; writes keeps the shapes x has had.
ShapeHs == {6, 24, ResnetH, 147, DefaultH, 588}

ShapeObjects ==
    {Object("GatedConv2dEncoder", S, L, FALSE, GatedConv2dEncoderInit(S, L, h, InitialSeed), 0) :
        S \in 1..MaxS, L \in 1..MaxLatent, h \in ShapeHs}

ShapeInit ==
    /\ model \in ShapeObjects
    /\ loadCalls = 0
    /\ \E b \in 1..MaxBatch, n \in 1..MaxSide :
          /\ args = <<Meta(<<b, 1, n, n>>), Meta(<<b, model.S>>)>>
          /\ x = Meta(<<b, 1, n, n>>)
          /\ writes = << <<b, 1, n, n>> >>
    /\ pc = "conv"
    /\ n_A = 0 /\ mu = NoTensor /\ std = NoTensor
    /\ idx = <<>> /\ i = 0
    /\ convCalls = 0
    /\ result = NoResult /\ raised = ""
    /\ last = NoCall

\* a statement of forward assigns t to x, or raises
ShapeStep(t, next) ==
    /\ IF IsOk(t)
       THEN /\ x' = t /\ writes' = Append(writes, t.shape) /\ pc' = next /\ UNCHANGED raised
       ELSE /\ raised' = t.err /\ pc' = "raised" /\ UNCHANGED <<x, writes>>
    /\ UNCHANGED <<model, loadCalls, args, n_A, mu, std, idx, convCalls, result, last>>

\* one GatedConv2d layer of x = self.conv_layer(x)
ShapeGatedConv2d ==
    /\ pc = "conv"
    /\ i < Len(ConvLayers)
    /\ i' = i + 1
    /\ ShapeStep(GatedConv2dShape(ConvLayers[i + 1], x), "conv")

\* x = x.view((-1, self.h))
ShapeView ==
    /\ pc = "conv"
    /\ i = Len(ConvLayers)
    /\ UNCHANGED i
    /\ ShapeStep(View(x, model.encoder.h), "cat")

\* x = torch.cat((x, component), dim=-1)
ShapeCat ==
    /\ pc = "cat"
    /\ UNCHANGED i
    /\ ShapeStep(CatShape(x, args[2]), "heads")

\* mu = self.mu_enc(x); std = torch.exp(0.5 * self.log_var_enc(x)); return mu, std
ShapeHeads ==
    /\ pc = "heads"
    /\ \E p \in {Pair(LinearShape(model.encoder.layers.mu_enc, x),
                      LinearShape(model.encoder.layers.log_var_enc, x))} :
          /\ raised' = Raised(p)
          /\ pc' = IF Raised(p) = "" THEN "returned" ELSE "raised"
          /\ result' = IF Raised(p) = "" THEN p ELSE NoResult
          /\ mu' = p.mu /\ std' = p.std
    /\ UNCHANGED <<model, loadCalls, args, x, n_A, idx, i, convCalls, writes, last>>

ShapeNext == ShapeGatedConv2d \/ ShapeView \/ ShapeCat \/ ShapeHeads

ShapeSpec == ShapeInit /\ [][ShapeNext]_vars

\* ----------------------------------------------------------------- properties
EnsembleCall == model.cls \in Ensembles /\ Len(args) = 2
Components == args[2]
Batch == args[1].shape[1]
ZeroOne(c) == \A k \in DOMAIN c : c[k] \in {0, 1}
CountOnes(c) == Cardinality({k \in DOMAIN c : c[k] = 1})
\* the k-th smallest 0-based index whose entry is 1
KthActive(c, k) ==
    CHOOSE s \in 0..(Len(c) - 1) :
        c[s + 1] = 1 /\ Cardinality({t \in 0..(s - 1) : c[t + 1] = 1}) = k - 1
\* row b of a (rows, L) value as it lands in a (B, L) slot
Landed(v, b) == Row(v, IF v.shape[1] = 1 THEN 1 ELSE b)
\* slot k (0-based) of the 3-D tensor t holds the value v in every sample
SlotHolds(t, k, v) ==
    \A b \in 1..t.shape[1] : Row(Slot(t, k), b) = Landed(v, b)

\* C1 (as stated): every encoder class accepts forward(input_tensor, component_labels),
\* two arguments, without a TypeError.
C1_EveryForwardTakesTwo ==
    (Finished /\ Len(args) = 2) => raised # "TypeError"

\* C1 (amended): GatedConv2dEncoder and the two ensembles take two arguments,
\* GatedConv2dResidualEncoder and ResNetEncoder take the single tensor x_s; a call
\* with exactly that many arguments never ends in a TypeError, any other does,
\* and a call that returns returns the pair (mean, std).
C1_CallBoundary ==
    Finished =>
        /\ (raised = "TypeError") <=>
              (Len(args) # (IF model.cls \in {"GatedConv2dResidualEncoder", "ResNetEncoder"}
                            THEN 1 ELSE 2))
        /\ pc = "returned" => (IsOk(result.mu) /\ IsOk(result.std))

C1_Witness ==
    /\ pc = "returned" /\ model.cls = "GatedConv2dResidualEncoder" /\ Len(args) = 1
    /\ IsOk(result.mu) /\ IsOk(result.std)

\* C2: for a 0/1 components vector an ensemble forward returns mean and std of shape
\* (batch, n_A, latent_dims), n_A the number of ones, and the loop has written each
\* of the n_A slots exactly once, in no state more than once; with no one in the
\* vector nothing is written and the shape is (batch, 0, latent_dims).
C2_ShapeAndWrites ==
    (EnsembleCall /\ ZeroOne(Components)) =>
        /\ \A k \in 1..Len(writes) : writes[k].slot = k - 1
        /\ Len(writes) <= CountOnes(Components)
        /\ pc = "returned" =>
              /\ result = Pair(mu, std)
              /\ mu.shape = <<Batch, CountOnes(Components), model.latent_dims>>
              /\ std.shape = <<Batch, CountOnes(Components), model.latent_dims>>
              /\ Len(writes) = CountOnes(Components)

C2_Witness ==
    /\ EnsembleCall /\ pc = "returned" /\ ZeroOne(Components)
    /\ CountOnes(Components) = 2 /\ Len(writes) = 2
    /\ mu.shape = <<Batch, 2, model.latent_dims>>

\* C3: slot i is written for the i-th smallest index s with components[s] = 1, with
\* the label whose every row is the one-hot vector of s, and on return holds the
\* encoding of x under that label; no other component gets a slot.
C3_StackingOrder ==
    EnsembleCall =>
        /\ \A k \in 1..Len(writes) :
              /\ writes[k].slot = k - 1
              /\ writes[k].s = KthActive(Components, k)
              /\ writes[k].label.shape = <<x.shape[1], model.S>>
              /\ \A r \in 1..writes[k].label.shape[1] :
                    Row(writes[k].label, r) = [c \in 1..model.S |-> IF c = writes[k].s + 1 THEN 1 ELSE 0]
        /\ pc = "returned" =>
              /\ Len(writes) = CountOnes(Components)
              /\ \A k \in 1..Len(writes) :
                    \E p \in {EncodeComponent(model, Cat(x, writes[k].label))} :
                        SlotHolds(mu, k - 1, p.mu) /\ SlotHolds(std, k - 1, p.std)

C3_Witness ==
    /\ EnsembleCall /\ pc = "returned" /\ Len(writes) = 2
    /\ writes[1].s < writes[2].s

\* C4: every std entry an encoder head has produced is positive and lies between
\* exp(-3) and exp(1), the images of the Hardtanh interval [-6, 2] under exp(0.5 * .).
StdInRange(v) == v > 0 /\ ExpHalfScalar(2 * (-3)) <= v /\ v <= ExpHalfScalar(2 * 1)
C4_StdRange ==
    /\ (pc = "returned" /\ model.cls \notin Ensembles) =>
          \A k \in 1..Len(result.std.flat) : StdInRange(result.std.flat[k])
    /\ EnsembleCall =>
          \A k \in 1..Len(writes) :
              \A n \in 1..Len(Slot(std, k - 1).flat) : StdInRange(Slot(std, k - 1).flat[n])

\* the mean is not clamped: a returned mean has an entry below -6, while the
\* log-variance next to it was clamped at -6 and every std is in range
C4_Witness ==
    /\ pc = "returned" /\ model.cls \notin Ensembles
    /\ \E k \in 1..Len(result.mu.flat) : result.mu.flat[k] < HardtanhMin
    /\ \E k \in 1..Len(result.std.flat) : result.std.flat[k] = ExpHalfScalar(HardtanhMin)
    /\ \A k \in 1..Len(result.std.flat) : StdInRange(result.std.flat[k])

\* C5: no step of any forward call changes the object (configuration, layers,
\* parameters) or loads the backbone; load_resnet has run once for a ResNetEncoder
\* and an EnsembleResnetEncoders and never otherwise; a call repeated with the same
\* arguments ends the same way with the same result.
C5_NoLifecycle ==
    /\ [][model' = model /\ loadCalls' = loadCalls]_vars
    /\ [](loadCalls = IF model.cls \in {"ResNetEncoder", "EnsembleResnetEncoders"} THEN 1 ELSE 0)
    /\ []((Finished /\ last.valid /\ last.args = args) =>
             (last.result = result /\ last.raised = raised))

C5_Witness ==
    /\ pc = "returned" /\ last.valid /\ last.args = args
    /\ model.cls = "EnsembleResnetEncoders" /\ Len(writes) = 2
    /\ last.result = result

\* C6: an ensemble forward applies conv_layer once, before the loop, whatever n_A
\* is, and no loop iteration (the residual encoder's forward included) applies it
\* again or changes x.
C6_ConvOnce ==
    /\ [](EnsembleCall =>
             /\ convCalls <= 1
             /\ pc \in {"view", "loop", "returned"} => convCalls = 1)
    /\ [][(pc = "loop") => (x' = x /\ convCalls' = convCalls)]_vars

C6_Witness ==
    /\ EnsembleCall /\ pc = "returned" /\ model.residuals
    /\ Len(writes) = 2 /\ convCalls = 1

\* what GatedConv2dEncoder.forward(x, c) gives for the input of the running call and
\* the one-hot label of component s repeated for every sample of the batch
SingleEncoder(s) ==
    GatedConv2dEncoderForward(model.encoder, args[1], Tile(OneHot(s, model.S), Batch))

NonResidualEnsemble ==
    model.cls = "EnsembleGatedConv2dEncoders" /\ ~model.residuals /\ Len(args) = 2

\* C7 (as stated): with residuals=False every slot written equals what
\* GatedConv2dEncoder.forward returns for the same input and the component's label.
C7_SlotEqualsSingleEncoder ==
    NonResidualEnsemble =>
        \A k \in 1..Len(writes) :
            \E p \in {SingleEncoder(writes[k].s)} :
                /\ Raised(p) = ""
                /\ Slot(mu, k - 1) = p.mu
                /\ Slot(std, k - 1) = p.std

\* C7 (amended): the same, for the inputs on which GatedConv2dEncoder.forward returns.
C7_SlotEqualsSingleEncoderWhenItReturns ==
    NonResidualEnsemble =>
        \A k \in 1..Len(writes) :
            \E p \in {SingleEncoder(writes[k].s)} :
                Raised(p) = "" => (Slot(mu, k - 1) = p.mu /\ Slot(std, k - 1) = p.std)

C7_Witness ==
    /\ NonResidualEnsemble /\ pc = "returned" /\ Len(writes) = 2
    /\ Raised(SingleEncoder(writes[2].s)) = ""
    /\ Slot(mu, 1) = SingleEncoder(writes[2].s).mu

\* C8: for every components vector of non-negative integers the slots allocated are
\* the slots written, so a returned std has no entry left at 0.
C8_AllSlotsWritten ==
    (EnsembleCall /\ pc = "returned") =>
        /\ n_A = Len(writes)
        /\ \A k \in 1..Len(std.flat) : std.flat[k] > 0

\* C9: a residual encoder (h = 64 for ResNetEncoder) given x_s of width h + S returns:
\* every layer got the width it declares, which is h + S for mu_0 and log_var_0 and
\* h + S + latent_dims for the other four, and mean and std have width latent_dims.
C9_ResidualWidths ==
    (model.cls \in ResidualClasses /\ Finished /\ Len(args) = 1) =>
        LET enc == model.encoder
            L == model.latent_dims
        IN  /\ model.cls = "ResNetEncoder" => enc.h = 64
            /\ \A n \in {"mu_0", "log_var_0"} : enc.layers[n].inF = enc.h + model.S
            /\ \A n \in {"mu_1", "mu_enc", "log_var_1", "log_var_enc"} :
                  enc.layers[n].inF = enc.h + model.S + L
            /\ \A n \in DOMAIN enc.layers : enc.layers[n].outF = L
            /\ (args[1].shape[2] = enc.h + model.S) =>
                  /\ pc = "returned"
                  /\ result.mu.shape = <<args[1].shape[1], L>>
                  /\ result.std.shape = <<args[1].shape[1], L>>
            /\ (args[1].shape[2] # enc.h + model.S) => raised = "linear"

C9_Witness ==
    /\ model.cls = "ResNetEncoder" /\ pc = "returned" /\ Len(args) = 1
    /\ args[1].shape = <<2, 64 + model.S>>
    /\ result.std.shape = <<2, model.latent_dims>>

\* C10: the flatten keeps the batch dimension exactly when the convolution stack
\* leaves h elements per sample; a 28 x 28 input goes 28, 28, 14, 14, 7, 7 with 6
\* channels at the end, 294 elements per sample, so with h = 294 the flattened
\* tensor is (batch, 294), its concatenation with the label is h + S wide and the
\* heads accept it.
ViewDone == Len(writes) > Len(ConvLayers) + 1 \/ (raised = "view")
C10_FlattenKeepsBatch ==
    /\ \A k \in 1..Len(writes) :
          (writes[1][3] = 28 /\ k <= Len(ConvLayers) + 1) =>
              writes[k][3] = <<28, 28, 14, 14, 7, 7>>[k] /\ writes[k][4] = writes[k][3]
    /\ (writes[1][3] = 28 /\ Len(writes) >= Len(ConvLayers) + 1) =>
          /\ writes[Len(ConvLayers) + 1] = <<Batch, 6, 7, 7>>
          /\ Numel(Tail(writes[Len(ConvLayers) + 1])) = 294
    /\ ViewDone =>
          ((raised # "view" /\ writes[Len(ConvLayers) + 2][1] = Batch)
              <=> Numel(Tail(writes[Len(ConvLayers) + 1])) = model.encoder.h)
    /\ (writes[1][3] = 28 /\ model.encoder.h = 294) =>
          /\ raised = ""
          /\ Len(writes) >= Len(ConvLayers) + 2 => writes[Len(ConvLayers) + 2] = <<Batch, 294>>
          /\ Len(writes) >= Len(ConvLayers) + 3 =>
                /\ writes[Len(ConvLayers) + 3] = <<Batch, 294 + model.S>>
                /\ model.encoder.layers.mu_enc.inF = 294 + model.S
                /\ model.encoder.layers.log_var_enc.inF = 294 + model.S
          /\ pc = "returned" => result.mu.shape = <<Batch, model.latent_dims>>

C10_Witness ==
    /\ pc = "returned" /\ writes[1] = <<2, 1, 28, 28>> /\ model.encoder.h = 294
    /\ x.shape = <<2, 294 + model.S>>

====
